---- MODULE Spec2Model ----
(***************************************************************************)
(* A model of worldsim-core: the card resolver (resolver.py), the          *)
(* relative-drift measure (invariants.py) and the simulation driver        *)
(* (simulate.py).                                                          *)
(*                                                                         *)
(* Three specifications share the module:                                  *)
(*   SpecResolve  one call of resolve_cards over a file system, an index   *)
(*                and a scan order, one law_refs entry per step;           *)
(*   SpecDrift    rel_drift applied to scalar and vector inputs;           *)
(*   SpecSim      one call of simulate, one loop iteration per step.       *)
(***************************************************************************)
EXTENDS Integers, Sequences, FiniteSets, TLC

VARIABLES
    \* ---- resolver ----
    fs,            \* path -> what the file at that path holds
    scan_files,    \* the *.json files of the search directories, in walk order
    index_by_id,   \* id -> path, from the index files of RULEGRAPH_CARD_PATHS
    law_refs,      \* the refs resolve_cards has been handed so far
    out,           \* resolve_cards' local map: card id -> card
    rstatus,       \* "running", "returned" or the exception that ended the call
    returned,      \* the map handed to the caller (NoMap while none is)
    \* ---- rel_drift ----
    d_current,     \* the arguments of a call of rel_drift
    d_baseline,
    d_result,      \* its result, a fraction <<numerator, denominator>>
    d_pc,          \* "call" before the call, "done" after it
    \* ---- simulate ----
    world,         \* the World handed to simulate (its bodies are written back)
    cards,         \* the card map handed to simulate: id -> card
    pc,            \* where simulate stands
    loop_i,        \* the loop variable i: << >> while unbound, <<i>> once bound
    state,         \* the local state dict {t, r, v, m}
    inv0,          \* the invariants computed before the loop
    audits,        \* history: the steps after which the loop audited
    result,        \* the RunResult returned (NoResult while none is)
    world0,        \* history: the world as it was handed in
    cards0,        \* history: the card map as it was handed in
    \* ---- a call of one of the pure functions ----
    call,          \* the function called and its arguments
    ret,           \* what it returned
    call_pc,       \* "call" before the call, "done" after it
    \* ---- a run of a main program (cli.py, examples/run_gravity_drag.py) ----
    main_kind,     \* which main program runs
    main_pc,       \* where it stands
    rep,           \* the ValidationReport of its validate call
    lock,          \* the lockfile on disk (NoLock while none is written)
    exit_code      \* the exit code of the process (NoExit while it runs)

rvars == <<fs, scan_files, index_by_id, law_refs, out, rstatus, returned>>
dvars == <<d_current, d_baseline, d_result, d_pc>>
svars == <<world, cards, pc, loop_i, state, inv0, audits, result, world0, cards0>>

cvars == <<call, ret, call_pc>>
mvars == <<main_kind, main_pc, rep, lock, exit_code>>

vars == <<rvars, dvars, svars, cvars, mvars>>

(***************************************************************************)
(* Bounds.                                                                 *)
(***************************************************************************)
MaxFiles == 3
MaxRefs == 2
MaxSteps == 250
MaxVal == 4
MaxSel == 2
MaxDyn == 2
MaxN == 8

(***************************************************************************)
(* Card files.                                                             *)
(***************************************************************************)
GravityId == "rg:law/physics.gravity.newton.v1"
LinearDragId == "rg:law/fluids.drag.linear.v1"
CardIds == {GravityId, LinearDragId}
Titles == {"t1", "t2"}

\* The sha256 field of a card: absent (None), the empty string, or a digest.
\* A digest is modelled as the sequence of the hashed fields (no collisions).
NoSha == <<"None">>
EmptySha == << >>

\* json.dumps(payload without 'sha256', sort_keys=True) hashed: the remaining
\* fields in key order.  "complete" stands for the other required LawCard
\* fields (version, type, kind, ...) being present and well typed.
canonical_sha256(payload) ==
    LET to_hash == [k \in (DOMAIN payload) \ {"sha256"} |-> payload[k]]
    IN  <<to_hash.complete, to_hash.id, to_hash.title>>

Paths == 1..MaxFiles
MissingPath == 0 - 1

OtherTitle(t) == IF t = "t1" THEN "t2" ELSE "t1"

\* What a card file declares as its sha256: nothing, "", the digest of its own
\* content, or the digest of another content (a stale or corrupted hash).
ShaChoices(id, title) ==
    { NoSha, EmptySha,
      <<TRUE, id, title>>,
      <<TRUE, id, OtherTitle(title)>> }

BadJsonFile == [json |-> FALSE,
                data |-> [id |-> "", title |-> "", complete |-> FALSE, sha256 |-> NoSha]]

CardFiles ==
    UNION { { [json |-> TRUE,
               data |-> [id |-> i, title |-> t, complete |-> c, sha256 |-> s]] :
                c \in BOOLEAN, s \in ShaChoices(i, t) } :
            i \in CardIds, t \in Titles }

\* The files the model draws from: a gravity card in every hash case (no
\* sha256, an empty one, the canonical one, a stale one), a gravity card that
\* lacks required fields, a valid drag card, and a file that is not JSON.
FileDescs ==
    {BadJsonFile} \cup
    { f \in CardFiles :
        \/ f.data.id = GravityId /\ f.data.title = "t1" /\ f.data.complete
        \/ f.data.id = GravityId /\ f.data.title = "t1" /\ ~f.data.complete
                                 /\ f.data.sha256 = NoSha
        \/ f.data.id = LinearDragId /\ f.data.title = "t1" /\ f.data.complete
                                 /\ f.data.sha256 = canonical_sha256(f.data) }

\* Exceptions.
NoError == ""
ParseError == "JSONDecodeError"
SchemaError == "ValidationError"
HashError == "ValueError: sha256 mismatch"
NotFoundError == "FileNotFoundError: Cannot resolve LawCard ref; set RULEGRAPH_CARD_PATHS"

\* LawCard(**data): the card object (the fields the resolver's callers read).
LawCard(data) == [id |-> data.id, title |-> data.title, sha256 |-> data.sha256]

\* Mutant of _load_lawcard_from_path: the hash is never verified.
load_lawcard_unverified(path, verify_hash) ==
    LET f == fs[path] IN
    IF ~f.json THEN [ok |-> FALSE, err |-> ParseError, card |-> LawCard(f.data)]
    ELSE IF ~f.data.complete THEN [ok |-> FALSE, err |-> SchemaError, card |-> LawCard(f.data)]
    ELSE [ok |-> TRUE, err |-> NoError, card |-> LawCard(f.data)]

\* _load_lawcard_from_path
load_lawcard_from_path(path, verify_hash) ==
    LET f == fs[path] IN
    IF ~f.json THEN [ok |-> FALSE, err |-> ParseError, card |-> LawCard(f.data)]
    ELSE IF ~f.data.complete THEN [ok |-> FALSE, err |-> SchemaError, card |-> LawCard(f.data)]
    ELSE IF /\ verify_hash
            /\ f.data.sha256 # NoSha /\ f.data.sha256 # EmptySha
            /\ canonical_sha256(f.data) # f.data.sha256
         THEN [ok |-> FALSE, err |-> HashError, card |-> LawCard(f.data)]
    ELSE [ok |-> TRUE, err |-> NoError, card |-> LawCard(f.data)]

\* Mutant of the scan loop: an error of a scanned file is raised at once
\* instead of being kept and the walk continued.
RECURSIVE scan_dirs_failfast(_, _, _)
scan_dirs_failfast(ref, i, last_error) ==
    IF i > Len(scan_files)
    THEN [kind |-> "none", err |-> NoError, path |-> MissingPath]
    ELSE LET p == scan_files[i] IN
         IF ~fs[p].json THEN [kind |-> "raise", err |-> ParseError, path |-> MissingPath]
         ELSE IF fs[p].data.id # ref THEN scan_dirs_failfast(ref, i + 1, last_error)
         ELSE LET l == load_lawcard_from_path(p, TRUE) IN
              IF l.ok THEN [kind |-> "path", err |-> NoError, path |-> p]
              ELSE [kind |-> "raise", err |-> l.err, path |-> MissingPath]

\* Mutant of the scan loop: the first file with the requested id is taken
\* without loading and verifying it.
RECURSIVE scan_dirs_first_match(_, _, _)
scan_dirs_first_match(ref, i, last_error) ==
    IF i > Len(scan_files)
    THEN IF last_error # NoError
         THEN [kind |-> "raise", err |-> last_error, path |-> MissingPath]
         ELSE [kind |-> "none", err |-> NoError, path |-> MissingPath]
    ELSE LET p == scan_files[i] IN
         IF ~fs[p].json THEN scan_dirs_first_match(ref, i + 1, ParseError)
         ELSE IF fs[p].data.id # ref THEN scan_dirs_first_match(ref, i + 1, last_error)
         ELSE [kind |-> "path", err |-> NoError, path |-> p]

\* Mutant of the scan loop: errors of scanned files are dropped, never kept.
RECURSIVE scan_dirs_swallow(_, _, _)
scan_dirs_swallow(ref, i, last_error) ==
    IF i > Len(scan_files)
    THEN [kind |-> "none", err |-> NoError, path |-> MissingPath]
    ELSE LET p == scan_files[i] IN
         IF ~fs[p].json THEN scan_dirs_swallow(ref, i + 1, NoError)
         ELSE IF fs[p].data.id # ref THEN scan_dirs_swallow(ref, i + 1, NoError)
         ELSE LET l == load_lawcard_from_path(p, TRUE) IN
              IF l.ok THEN [kind |-> "path", err |-> NoError, path |-> p]
              ELSE scan_dirs_swallow(ref, i + 1, NoError)

\* The scan loop of _resolve_iri_to_path from position i of the walk on, with
\* the last error seen so far.
RECURSIVE scan_dirs(_, _, _)
scan_dirs(ref, i, last_error) ==
    IF i > Len(scan_files)
    THEN IF last_error # NoError
         THEN [kind |-> "raise", err |-> last_error, path |-> MissingPath]
         ELSE [kind |-> "none", err |-> NoError, path |-> MissingPath]
    ELSE LET p == scan_files[i] IN
         IF ~fs[p].json THEN scan_dirs(ref, i + 1, ParseError)
         ELSE IF fs[p].data.id # ref THEN scan_dirs(ref, i + 1, last_error)
         ELSE LET l == load_lawcard_from_path(p, TRUE) IN
              IF l.ok THEN [kind |-> "path", err |-> NoError, path |-> p]
              ELSE scan_dirs(ref, i + 1, l.err)

\* The index step of _resolve_iri_to_path: the indexed path when the index
\* names the ref and its target exists and loads, else MissingPath.
index_lookup(ref) ==
    IF ref \in DOMAIN index_by_id
    THEN LET p == index_by_id[ref] IN
         IF p \in Paths /\ load_lawcard_from_path(p, TRUE).ok THEN p ELSE MissingPath
    ELSE MissingPath

\* Mutant of _resolve_iri_to_path: the directories are scanned first and the
\* index is consulted only when the scan finds nothing.
resolve_iri_scan_first(ref) ==
    LET s == scan_dirs(ref, 1, NoError) IN
    IF s.kind = "path" THEN s
    ELSE IF index_lookup(ref) # MissingPath
    THEN [kind |-> "path", err |-> NoError, path |-> index_lookup(ref)]
    ELSE s

\* _resolve_iri_to_path
resolve_iri_to_path(ref) ==
    IF index_lookup(ref) # MissingPath
    THEN [kind |-> "path", err |-> NoError, path |-> index_lookup(ref)]
    ELSE scan_dirs(ref, 1, NoError)

(***************************************************************************)
(* resolve_cards.  A ref is a card id (an IRI, which names no existing     *)
(* file) or the path of an existing file.                                  *)
(***************************************************************************)
IriRef(i) == [path |-> MissingPath, iri |-> i]
PathRef(p) == [path |-> p, iri |-> ""]
\* The caller's refs: both ids, and the path of the last file (which the index
\* may name and the walk may not reach).
Refs == {IriRef(i) : i \in CardIds} \cup {PathRef(MaxFiles)}

\* Path(ref).exists()
exists(ref) == ref.path \in Paths

NoMap == [status |-> "none", cards |-> << >>]

\* One iteration of the loop of resolve_cards on ref: the result of the
\* iteration as [err, card].
resolve_one(ref) ==
    IF exists(ref)
    THEN LET l == load_lawcard_from_path(ref.path, TRUE) IN
         [err |-> l.err, card |-> l.card]
    ELSE LET p2 == resolve_iri_to_path(ref.iri) IN
         IF p2.kind = "raise" THEN [err |-> p2.err, card |-> LawCard(BadJsonFile.data)]
         ELSE IF p2.kind = "none" THEN [err |-> NotFoundError, card |-> LawCard(BadJsonFile.data)]
         ELSE LET l == load_lawcard_from_path(p2.path, TRUE) IN
              [err |-> l.err, card |-> l.card]

\* Mutant of out[card.id] = card: an id already bound keeps its first card.
BindFirst(map, card) ==
    [k \in (DOMAIN map) \cup {card.id} |->
        IF k \in DOMAIN map THEN map[k] ELSE card]

\* out[card.id] = card
Bind(map, card) ==
    [k \in (DOMAIN map) \cup {card.id} |-> IF k = card.id THEN card ELSE map[k]]

\* The caller hands resolve_cards its next ref; the loop body runs on it.
ResolveRef(ref) ==
    /\ rstatus = "running"
    /\ Len(law_refs) < MaxRefs
    /\ law_refs' = Append(law_refs, ref)
    /\ LET r == resolve_one(ref) IN
       IF r.err # NoError
       THEN /\ rstatus' = r.err
            /\ UNCHANGED out
       ELSE /\ out' = Bind(out, r.card)
            /\ rstatus' = "running"
    /\ UNCHANGED <<fs, scan_files, index_by_id, returned>>
    /\ UNCHANGED <<dvars, svars, cvars, mvars>>

\* The list is exhausted: return out.
ResolveReturn ==
    /\ rstatus = "running"
    /\ Len(law_refs) >= 1
    /\ rstatus' = "returned"
    /\ returned' = [status |-> "map", cards |-> out]
    /\ UNCHANGED <<fs, scan_files, index_by_id, law_refs, out>>
    /\ UNCHANGED <<dvars, svars, cvars, mvars>>

EmptyMap == [k \in {} |-> LawCard(BadJsonFile.data)]

IndexTargets == {MissingPath, MaxFiles}

\* A value handed to rel_drift: a float or an array.
Abs(x) == IF x < 0 THEN 0 - x ELSE x

Scalar(x) == [kind |-> "scalar", x |-> x]
Vector(x) == [kind |-> "vector", x |-> x]

(***************************************************************************)
(* The parts of the state a specification does not use stay as they are    *)
(* here.                                                                   *)
(***************************************************************************)
ResolveIdle ==
    /\ fs = [p \in Paths |-> BadJsonFile]
    /\ scan_files = << >>
    /\ index_by_id = << >>
    /\ law_refs = << >>
    /\ out = EmptyMap
    /\ rstatus = "idle"
    /\ returned = NoMap

DriftIdle ==
    /\ d_current = Scalar(0)
    /\ d_baseline = Scalar(0)
    /\ d_result = <<0, 1>>
    /\ d_pc = "idle"

NoWorld == [entities |-> << >>, dynamics |-> << >>, config |-> << >>]
NoState == [t |-> 0, r |-> << >>, v |-> << >>, m |-> << >>]
NoInvariants ==
    [Energy |-> Scalar(0),
     LinearMomentum |-> Vector(<<0, 0, 0>>),
     AngularMomentum |-> Vector(<<0, 0, 0>>)]
NoResult == [steps |-> 0 - 1]

NoCall == [fn |-> "none"]
NoReturn == [fn |-> "none"]

CallIdle ==
    /\ call = NoCall
    /\ ret = NoReturn
    /\ call_pc = "idle"

NoReport == [ok |-> TRUE, issues |-> << >>]
NoLock == [written |-> FALSE]
NoExit == 0 - 1

MainIdle ==
    /\ main_kind = "none"
    /\ main_pc = "idle"
    /\ rep = NoReport
    /\ lock = NoLock
    /\ exit_code = NoExit

SimIdle ==
    /\ world = NoWorld
    /\ cards = << >>
    /\ pc = "idle"
    /\ loop_i = << >>
    /\ state = NoState
    /\ inv0 = NoInvariants
    /\ audits = {}
    /\ result = NoResult
    /\ world0 = NoWorld
    /\ cards0 = << >>

InitResolve ==
    /\ fs \in [Paths -> FileDescs]
    /\ \E k \in {MaxFiles - 1, MaxFiles} : scan_files = [i \in 1..k |-> i]
    /\ \/ index_by_id = << >>
       \/ \E t \in IndexTargets : index_by_id = [k \in {GravityId} |-> t]
    /\ law_refs = << >>
    /\ out = EmptyMap
    /\ rstatus = "running"
    /\ returned = NoMap
    /\ DriftIdle
    /\ SimIdle
    /\ CallIdle
    /\ MainIdle

NextResolve ==
    \/ \E ref \in Refs : ResolveRef(ref)
    \/ ResolveReturn

SpecResolve == InitResolve /\ [][NextResolve]_vars

(***************************************************************************)
(* resolve_cards as a function of the whole list (the loop folded).        *)
(***************************************************************************)
RECURSIVE resolve_cards(_, _)
resolve_cards(refs, map) ==
    IF refs = << >> THEN [err |-> NoError, out |-> map]
    ELSE LET r == resolve_one(Head(refs)) IN
         IF r.err # NoError THEN [err |-> r.err, out |-> map]
         ELSE resolve_cards(Tail(refs), Bind(map, r.card))

(***************************************************************************)
(* Properties of the resolver.                                             *)
(***************************************************************************)
Processed == Len(law_refs) >= 1
LastRef == law_refs[Len(law_refs)]
Failed == rstatus \notin {"running", "returned"}

\* The file declares a sha256 field (possibly the empty string) that is not
\* the canonical hash of the file's JSON.
DeclaresOtherSha(p) ==
    /\ fs[p].json /\ fs[p].data.complete
    /\ fs[p].data.sha256 # NoSha
    /\ fs[p].data.sha256 # canonical_sha256(fs[p].data)

\* The same, the declared sha256 being a non-empty string.
HashMismatched(p) == DeclaresOtherSha(p) /\ fs[p].data.sha256 # EmptySha

\* The card is the card of a hash-mismatched file.
MismatchedCard(card) ==
    /\ card.sha256 \notin {NoSha, EmptySha}
    /\ card.sha256 # canonical_sha256([id |-> card.id, title |-> card.title,
                                       complete |-> TRUE, sha256 |-> card.sha256])

Scanned == {scan_files[i] : i \in 1..Len(scan_files)}

\* A file of the search directories with the requested id that loads: its hash
\* verifies, or it declares none.
GoodCandidates(id) ==
    {p \in Scanned : fs[p].json /\ fs[p].data.id = id /\ fs[p].data.complete
                     /\ ~HashMismatched(p)}

VerifiedCandidates(id) ==
    {p \in Scanned : fs[p].json /\ fs[p].data.id = id /\ fs[p].data.complete
                     /\ ~DeclaresOtherSha(p)}

IndexTarget(id) ==
    IF id \in DOMAIN index_by_id THEN {index_by_id[id]} \cap Paths ELSE {}

\* Every file looked at parses, and every one with the requested id (the index
\* target is one) fails hash verification.
OnlyMismatches(id) ==
    /\ \A p \in Scanned \cup IndexTarget(id) :
          fs[p].json /\ (fs[p].data.id = id => HashMismatched(p))
    /\ \A p \in IndexTarget(id) : fs[p].data.id = id
    /\ \E p \in Scanned \cup IndexTarget(id) : fs[p].data.id = id

C6_WitnessIndexOnly ==
    /\ Processed /\ ~exists(LastRef)
    /\ OnlyMismatches(LastRef.iri)
    /\ Scanned # {}
    /\ rstatus = NotFoundError

\* A scanned file that raises when the scan reaches it for this id: it does not
\* parse, or it has the id and does not load.
Raises(p, id) ==
    \/ ~fs[p].json
    \/ fs[p].data.id = id /\ ~load_lawcard_from_path(p, TRUE).ok

\* C7: a scanned file that fails to parse never ends the scan: a valid
\* candidate with the id elsewhere in the walk is still resolved; a parse
\* error is raised only when no candidate resolved (neither the index target
\* nor a scanned file loads); and when no scanned file raises and none
\* resolves, the failure is the not-found error.
C7_ParseErrorsDeferred ==
    (Processed /\ ~exists(LastRef))
        => /\ GoodCandidates(LastRef.iri) # {} => ~Failed
           /\ rstatus = ParseError =>
                 /\ GoodCandidates(LastRef.iri) = {}
                 /\ index_lookup(LastRef.iri) = MissingPath
                 /\ \E p \in Scanned : ~fs[p].json
           /\ ( /\ \A p \in Scanned : ~Raises(p, LastRef.iri)
                /\ GoodCandidates(LastRef.iri) = {}
                /\ index_lookup(LastRef.iri) = MissingPath )
                 => rstatus = NotFoundError

\* An unparseable file stands before the valid candidate in the walk, and the
\* ref is bound to the candidate's card.
C7_Witness ==
    /\ Processed /\ ~exists(LastRef) /\ ~Failed
    /\ index_by_id = << >>
    /\ \E i, j \in 1..Len(scan_files) :
          /\ i < j /\ ~fs[scan_files[i]].json
          /\ scan_files[j] \in GoodCandidates(LastRef.iri)
          /\ LastRef.iri \in DOMAIN out
          /\ out[LastRef.iri] = LawCard(fs[scan_files[j]].data)

\* The cards the processed refs resolved to, in order.
CardOf(k) == resolve_one(law_refs[k]).card

\* C8: the map is keyed by the declared id of each card: its keys are the ids
\* of the cards the refs resolved to, an id holds the card of the last ref that
\* resolved to it, and resolve_cards([r]) and resolve_cards([r, r]) have the
\* same keys for every resolvable ref r.
C8_KeyedByCardId ==
    LET n == Len(law_refs)
        cs == [k \in 1..n |-> CardOf(k)]
        once(r) == resolve_cards(<<r>>, EmptyMap)
        twice(r) == resolve_cards(<<r, r>>, EmptyMap)
    IN  /\ ~Failed =>
              /\ DOMAIN out = {cs[k].id : k \in 1..n}
              /\ \A k \in 1..n :
                    (\A j \in (k + 1)..n : cs[j].id # cs[k].id)
                        => out[cs[k].id] = cs[k]
              /\ rstatus = "returned" => returned = [status |-> "map", cards |-> out]
        /\ \A r \in (IF n = 0 THEN Refs ELSE {}) :
              once(r).err = NoError
                  => /\ twice(r).err = NoError
                     /\ DOMAIN twice(r).out = DOMAIN once(r).out
        /\ (~Failed /\ n = 2 /\ law_refs[1] = law_refs[2])
              => DOMAIN out = DOMAIN once(law_refs[1]).out

\* Two refs (a path and an IRI) resolved to two different cards with one id;
\* the map returned has the single entry of the later one.
C8_Witness ==
    /\ rstatus = "returned"
    /\ Len(law_refs) = 2
    /\ law_refs[1] # law_refs[2]
    /\ CardOf(1).id = CardOf(2).id
    /\ CardOf(1) # CardOf(2)
    /\ Cardinality(DOMAIN returned.cards) = 1
    /\ returned.cards[CardOf(2).id] = CardOf(2)

\* The index target of the id loads: it exists, parses, and its hash verifies.
IndexTargetLoads(id) ==
    \E p \in IndexTarget(id) :
        fs[p].json /\ fs[p].data.complete /\ ~HashMismatched(p)

\* C9: the index is consulted before the scan: when the index names the id
\* and its target exists and loads, the target's card is the one bound, whatever
\* the search directories hold; when the target is missing, does not parse or
\* fails verification, nothing is raised for it and the outcome is the outcome
\* of the directory scan.
C9_IndexFirstThenScan ==
    (Processed /\ ~exists(LastRef))
        => LET id == LastRef.iri
               s == scan_dirs(id, 1, NoError)
           IN  /\ IndexTargetLoads(id) =>
                     /\ ~Failed
                     /\ \A p \in IndexTarget(id) :
                           /\ LawCard(fs[p].data).id \in DOMAIN out
                           /\ out[LawCard(fs[p].data).id] = LawCard(fs[p].data)
               /\ ~IndexTargetLoads(id) =>
                     /\ s.kind = "path" =>
                           /\ ~Failed
                           /\ out[LawCard(fs[s.path].data).id] = LawCard(fs[s.path].data)
                     /\ s.kind = "raise" => rstatus = s.err
                     /\ s.kind = "none" => rstatus = NotFoundError

\* The index target loads while the walk holds another valid card with the same
\* id: the target's card is the one bound.
C9_Witness ==
    /\ Processed /\ ~exists(LastRef) /\ ~Failed
    /\ IndexTargetLoads(LastRef.iri)
    /\ \E p \in GoodCandidates(LastRef.iri) :
          /\ p \notin IndexTarget(LastRef.iri)
          /\ LawCard(fs[p].data) # out[LastRef.iri]
    /\ \A p \in IndexTarget(LastRef.iri) : out[LastRef.iri] = LawCard(fs[p].data)

\* The index target fails verification, and the scan resolves the ref.
C9_WitnessFallThrough ==
    /\ Processed /\ ~exists(LastRef) /\ ~Failed
    /\ \E p \in IndexTarget(LastRef.iri) : HashMismatched(p)
    /\ GoodCandidates(LastRef.iri) # {}

(***************************************************************************)
(* invariants.py: rel_drift.                                               *)
(*                                                                         *)
(* A value is a scalar or a vector of integers.  Results are exact         *)
(* fractions <<numerator, denominator>> with a positive denominator.       *)
(* Vectors are drawn with an integer Euclidean norm, so that the norm is   *)
(* computed exactly.                                                       *)
(***************************************************************************)
RECURSIVE SumSq(_)
SumSq(x) == IF x = << >> THEN 0 ELSE Head(x) * Head(x) + SumSq(Tail(x))

RECURSIVE SumAbs(_)
SumAbs(x) == IF x = << >> THEN 0 ELSE Abs(Head(x)) + SumAbs(Tail(x))

IsSquare(n) == \E k \in 0..n : k * k = n

\* np.linalg.norm(x): the root of the sum of squares, which lies between 0
\* and the sum of the absolute values.
linalg_norm(x) == CHOOSE k \in 0..SumAbs(x) : k * k = SumSq(x)

\* _norm(x): abs(float(x)) for a scalar, np.linalg.norm(x) otherwise.
norm(x) == IF x.kind = "scalar" THEN Abs(x.x) ELSE linalg_norm(x.x)

\* rel_drift(current, baseline)
rel_drift(current, baseline) ==
    LET denom == norm(baseline) IN
    IF denom = 0 THEN <<norm(current), 1>>
    ELSE <<Abs(norm(current) - denom), denom>>

\* Comparison of fractions with positive denominators.
FracEq(p, q) == p[1] * q[2] = q[1] * p[2]
FracGt(p, q) == p[1] * q[2] > q[1] * p[2]
FracLt(p, q) == p[1] * q[2] < q[1] * p[2]

Vals == (0 - MaxVal)..MaxVal
ScalarInputs == {Scalar(x) : x \in Vals}
VectorInputs == {Vector(<<x, y>>) : x \in Vals, y \in Vals}
DriftInputs(kind) ==
    IF kind = "scalar" THEN ScalarInputs
    ELSE {w \in VectorInputs : IsSquare(SumSq(w.x))}

InitDrift ==
    /\ \E kind \in {"scalar", "vector"} :
          /\ d_current \in DriftInputs(kind)
          /\ d_baseline \in DriftInputs(kind)
    /\ d_result = <<0, 1>>
    /\ d_pc = "call"
    /\ ResolveIdle
    /\ SimIdle
    /\ CallIdle
    /\ MainIdle

\* One call of rel_drift on the drawn arguments.
DriftCall ==
    /\ d_pc = "call"
    /\ d_result' = rel_drift(d_current, d_baseline)
    /\ d_pc' = "done"
    /\ UNCHANGED <<d_current, d_baseline, rvars, svars, cvars, mvars>>

NextDrift == DriftCall

SpecDrift == InitDrift /\ [][NextDrift]_vars

(***************************************************************************)
(* Properties of rel_drift.                                                *)
(***************************************************************************)
\* current - baseline, componentwise
Diff(c, b) == [k \in DOMAIN c |-> c[k] - b[k]]

\* C4: for scalars with a nonzero baseline rel_drift(current, baseline) is
\* |current - baseline| / |baseline|; for vectors it is the Euclidean norm of
\* (current - baseline) over the norm of baseline (compared here through the
\* squares of both sides); with a zero baseline it is the norm of current.
C4_RelDriftFormula ==
    d_pc = "done" =>
        IF norm(d_baseline) = 0
        THEN FracEq(d_result, <<norm(d_current), 1>>)
        ELSE IF d_baseline.kind = "scalar"
        THEN FracEq(d_result, <<Abs(d_current.x - d_baseline.x), Abs(d_baseline.x)>>)
        ELSE d_result[1] * d_result[1] * SumSq(d_baseline.x)
                = SumSq(Diff(d_current.x, d_baseline.x)) * d_result[2] * d_result[2]

(***************************************************************************)
(* simulate.py: the composed driver.                                       *)
(*                                                                         *)
(* Bodies lie and move on the x axis: a position, a velocity or an         *)
(* acceleration is its x component, which is an invariant subspace of the  *)
(* three-dimensional dynamics.  Floats are integers; a float division      *)
(* truncates toward zero.  Masses and dt are even, so that 0.5 * x is      *)
(* exact wherever the code halves.  A state with two bodies at the same    *)
(* position, where the floats become inf and nan, ends the modelled run    *)
(* (pc = "nan").                                                           *)
(***************************************************************************)
AuditStride == 100
GrossFactor == 10
DefaultDt == 60
One == <<1, 1>>

QuadraticDragId == "rg:law/fluids.drag.quadratic.v1"
InvariantNames == {"Energy", "LinearMomentum", "AngularMomentum"}

Sgn(x) == IF x > 0 THEN 1 ELSE IF x < 0 THEN 0 - 1 ELSE 0

\* a / b on floats: the quotient truncated toward zero
Quot(a, b) ==
    LET q == Abs(a) \div Abs(b) IN
    IF (a >= 0) = (b > 0) THEN q ELSE 0 - q

RECURSIVE SumTo(_, _)
SumTo(f, n) == IF n = 0 THEN 0 ELSE f[n] + SumTo(f, n - 1)

\* the sum of the entries of an array
Sum(f) == SumTo(f, Len(f))

Body(id, mass, position, velocity) ==
    [id |-> id, mass |-> mass, position |-> position, velocity |-> velocity]

\* selector: None, or the bodies and the pairs it lists
NoSelector == [present |-> FALSE, bodies |-> << >>, pairs |-> << >>]
Selector(bodies, pairs) == [present |-> TRUE, bodies |-> bodies, pairs |-> pairs]
NoOverride == << >>
Dynamic(ref, selector, override) ==
    [ref |-> ref, selector |-> selector, override |-> override]

\* The gravity card: parameter G and the drift budgets it declares.
GravityCard(G, budgets) ==
    [id |-> GravityId,
     parameters |-> [G |-> G],
     invariants |-> [driftBudget |-> budgets]]

\* The linear drag card: parameter gamma.
DragCard(gamma) ==
    [id |-> LinearDragId,
     parameters |-> [gamma |-> gamma],
     invariants |-> [driftBudget |-> << >>]]

\* _world_to_arrays(world)
world_to_arrays(w) ==
    [m |-> [k \in DOMAIN w.entities |-> w.entities[k].mass],
     r |-> [k \in DOMAIN w.entities |-> w.entities[k].position],
     v |-> [k \in DOMAIN w.entities |-> w.entities[k].velocity]]

\* Mutant of _arrays_to_world: row i is written to the body at the mirrored
\* index.
arrays_to_world_mirrored(w, r, v) ==
    [w EXCEPT !.entities =
        [k \in DOMAIN w.entities |->
            [w.entities[k] EXCEPT !.position = r[Len(r) + 1 - k],
                                  !.velocity = v[Len(v) + 1 - k]]]]

\* _arrays_to_world(world, r, v)
arrays_to_world(w, r, v) ==
    [w EXCEPT !.entities =
        [k \in DOMAIN w.entities |->
            [w.entities[k] EXCEPT !.position = r[k], !.velocity = v[k]]]]

\* _config_dt(world)
config_dt(w) ==
    IF "dtSeconds" \in DOMAIN w.config THEN w.config.dtSeconds ELSE DefaultDt

\* _config_steps(world)
config_steps(w) ==
    IF "steps" \in DOMAIN w.config THEN w.config.steps ELSE 0

\* grav_ref or _dyn_ref(dyn[0])
law_ref(w) ==
    IF \E k \in DOMAIN w.dynamics : w.dynamics[k].ref = GravityId
    THEN GravityId
    ELSE w.dynamics[1].ref

\* cards.get(ref) or next((c for c in cards.values() if c.id == ref), None):
\* << >> for None, <<card>> otherwise.  The card map is the sequence of its
\* (key, card) entries in insertion order, keys distinct.
card_by_ref(cs, ref) ==
    LET byKey == {k \in DOMAIN cs : cs[k].key = ref}
        byId == {k \in DOMAIN cs : cs[k].card.id = ref}
    IN IF byKey # {} THEN <<cs[CHOOSE k \in byKey : TRUE].card>>
       ELSE IF byId # {}
       THEN <<cs[CHOOSE k \in byId : \A j \in byId : k <= j].card>>
       ELSE << >>

\* index_by_id.get(bid) of simulate: {} for None, otherwise the one index
\* (the last body carrying the id).
entity_index(ents, bid) ==
    LET ks == {k \in DOMAIN ents : ents[k].id = bid} IN
    IF ks = {} THEN {} ELSE {CHOOSE k \in ks : \A j \in ks : j <= k}

\* Mutant of _mask_from_selector: the pairs are not looked at.
mask_from_selector_bodies_only(sel, ents) ==
    LET mask == UNION {entity_index(ents, sel.bodies[k]) : k \in DOMAIN sel.bodies}
    IN IF ~sel.present THEN DOMAIN ents
       ELSE IF mask = {} THEN DOMAIN ents
       ELSE mask

\* _mask_from_selector(sel, n): the set of indices where the mask is True
mask_from_selector(sel, ents) ==
    LET byBodies == UNION {entity_index(ents, sel.bodies[k]) : k \in DOMAIN sel.bodies}
        byPairs == UNION {entity_index(ents, sel.pairs[k][1])
                            \cup entity_index(ents, sel.pairs[k][2]) :
                          k \in DOMAIN sel.pairs}
        mask == byBodies \cup byPairs
    IN IF ~sel.present THEN DOMAIN ents
       ELSE IF mask = {} THEN DOMAIN ents
       ELSE mask

\* Mutant of _param: the override is tested for truth, so an override of 0
\* falls back to the card's value.
param_truthy(d, name, default) ==
    IF name \in DOMAIN d.override /\ d.override[name] # 0
    THEN d.override[name]
    ELSE default

\* _param(d, name, default)
param(d, name, default) ==
    IF name \in DOMAIN d.override THEN d.override[name] ELSE default

\* What one dynamics entry adds to aext[i] in _external_accels.
external_term(d, w, cs, law, m, v_now, i) ==
    LET card == card_by_ref(cs, d.ref) IN
    IF d.ref = law.id THEN 0
    ELSE IF card = << >> THEN 0
    ELSE IF i \notin mask_from_selector(d.selector, w.entities) THEN 0
    ELSE IF card[1].id = LinearDragId
    THEN 0 - Quot(param(d, "gamma", card[1].parameters.gamma) * v_now[i], m[i])
    ELSE IF card[1].id = QuadraticDragId
    THEN 0 - Quot(param(d, "Cq", card[1].parameters.Cq) * Abs(v_now[i]) * v_now[i], m[i])
    ELSE 0

\* _external_accels(v_now)
external_accels(w, cs, law, m, v_now) ==
    [i \in DOMAIN v_now |->
        Sum([k \in DOMAIN w.dynamics |->
                external_term(w.dynamics[k], w, cs, law, m, v_now, i)])]

\* VerletNBodySolver._accels_loop(G, m, r, eps2) with eps2 = 0: on the axis
\* dr * dist2^(-3/2) is sgn(dr) / dr^2; the self entry adds nothing.  The
\* division by dr^2 is done as two divisions by |dr|, which truncate to the
\* same integer.
accels_loop(G, m, r) ==
    [i \in DOMAIN r |->
        0 - Sum([j \in DOMAIN r |->
                    IF j = i THEN 0
                    ELSE Sgn(r[i] - r[j])
                            * (((G * m[j]) \div Abs(r[i] - r[j])) \div Abs(r[i] - r[j]))])]

\* law.parameters["G"].value if "G" in law.parameters else 0.0
card_G(law) == IF "G" \in DOMAIN law.parameters THEN law.parameters.G ELSE 0

\* solver.accelerations(state, law): the per-body kernel on the state's
\* positions and masses with the card's G and no softening.
accelerations(st, law) == accels_loop(card_G(law), st.m, st.r)

\* Two bodies at one position: the kernel and the potential divide by zero.
Coincident(r) == \E i \in DOMAIN r, j \in DOMAIN r : i # j /\ r[i] = r[j]

\* kinetic_energy(m, v)
kinetic_energy(m, v) == Quot(Sum([k \in DOMAIN m |-> m[k] * v[k] * v[k]]), 2)

\* potential_energy(G, m, r)
potential_energy(G, m, r) ==
    0 - Sum([i \in DOMAIN r |->
                Sum([j \in DOMAIN r |->
                        IF j > i THEN (G * m[i] * m[j]) \div Abs(r[j] - r[i]) ELSE 0])])

\* linear_momentum(m, v)
linear_momentum(m, v) == <<Sum([k \in DOMAIN m |-> m[k] * v[k]]), 0, 0>>

\* angular_momentum(m, r, v): r and m v are parallel to the axis
angular_momentum(m, r, v) == <<0, 0, 0>>

\* audit_invariants(G, m, r, v)
audit_invariants(G, m, r, v) ==
    [Energy |-> Scalar(kinetic_energy(m, v) + potential_energy(G, m, r)),
     LinearMomentum |-> Vector(linear_momentum(m, v)),
     AngularMomentum |-> Vector(angular_momentum(m, r, v))]

\* float(budgets.get(name, {}).get("rel", 1.0))
budget(law, name) ==
    IF name \in DOMAIN law.invariants.driftBudget
    THEN law.invariants.driftBudget[name].rel
    ELSE One

\* v_half and r_new of one loop iteration
half_step(st, law, w, cs, dt) ==
    LET a_g == accelerations(st, law)
        a_e == external_accels(w, cs, law, st.m, st.v)
        v_half == [k \in DOMAIN st.v |-> st.v[k] + Quot(dt * (a_g[k] + a_e[k]), 2)]
    IN [v_half |-> v_half,
        r_new |-> [k \in DOMAIN st.r |-> st.r[k] + dt * v_half[k]]]

\* Mutant of the loop body: the closing half-kick takes the external
\* acceleration at the starting velocity.
composed_step_closing_at_v(st, law, w, cs, dt) ==
    LET h == half_step(st, law, w, cs, dt)
        a_g2 == accelerations([r |-> h.r_new, m |-> st.m], law)
        a_e2 == external_accels(w, cs, law, st.m, st.v)
        v_new == [k \in DOMAIN st.v |->
                    h.v_half[k] + Quot(dt * (a_g2[k] + a_e2[k]), 2)]
    IN [t |-> st.t + dt, r |-> h.r_new, v |-> v_new, m |-> st.m]

\* the state one loop iteration leaves
composed_step(st, law, w, cs, dt) ==
    LET h == half_step(st, law, w, cs, dt)
        a_g2 == accelerations([r |-> h.r_new, m |-> st.m], law)
        a_e2 == external_accels(w, cs, law, st.m, h.v_half)
        v_new == [k \in DOMAIN st.v |->
                    h.v_half[k] + Quot(dt * (a_g2[k] + a_e2[k]), 2)]
    IN [t |-> st.t + dt, r |-> h.r_new, v |-> v_new, m |-> st.m]

\* (i + 1) % 100 == 0 or i + 1 == steps
audit_due(i, steps) == (i + 1) % AuditStride = 0 \/ i + 1 = steps

\* Mutant of the abort condition: the budget itself is the threshold.
gross_violation_at_budget(inv, i0, law) ==
    \E n \in InvariantNames :
        LET b == budget(law, n)
            d == IF FracLt(b, One) THEN rel_drift(inv[n], i0[n]) ELSE <<0, 1>>
        IN FracLt(b, One) /\ FracGt(d, b)

\* The condition of the break: some enabled budget is exceeded more than
\* gross_factor times.
gross_violation(inv, i0, law) ==
    \E n \in InvariantNames :
        LET b == budget(law, n)
            d == IF FracLt(b, One) THEN rel_drift(inv[n], i0[n]) ELSE <<0, 1>>
        IN FracLt(b, One) /\ FracGt(d, <<GrossFactor * b[1], b[2]>>)

\* Mutant of steps = i + 1: the zero-based index.
run_steps_zero_based(i) == i

\* steps = i + 1
run_steps(i) == i + 1

(***************************************************************************)
(* The worlds and card maps simulate is run on.                            *)
(***************************************************************************)
Scenes ==
    { [G |-> 0,  bodies |-> <<Body("b1", 2, 0, 50), Body("b2", 4, 1000, 0 - 24)>>],
      [G |-> 40, bodies |-> <<Body("b1", 4, 0, 1),  Body("b2", 4, 1000, 0)>>],
      [G |-> 40, bodies |-> <<Body("b1", 4, 0, 3),  Body("b2", 4, 1000, 0 - 3)>>],
      [G |-> 40, bodies |-> <<Body("b1", 2, 0, 1),  Body("b2", 4, 12, 0)>>],
      [G |-> 0,  bodies |-> <<Body("b1", 2, 0 - 3, 0), Body("b2", 4, 3, 0)>>] }

DynamicsChoices ==
    { << >>,
      <<Dynamic(GravityId, NoSelector, NoOverride)>>,
      <<Dynamic(GravityId, NoSelector, NoOverride),
        Dynamic(LinearDragId, NoSelector, NoOverride)>>,
      <<Dynamic(LinearDragId, Selector(<<"b1">>, << >>), NoOverride),
        Dynamic(GravityId, NoSelector, NoOverride)>>,
      <<Dynamic(LinearDragId, NoSelector, NoOverride)>> }

Configs ==
    {[dtSeconds |-> 2, steps |-> n] : n \in {1, AuditStride, MaxSteps}}
        \cup {[dtSeconds |-> 2], [steps |-> 1]}

Rel(n, d) == [rel |-> <<n, d>>]

BudgetChoices ==
    { << >>,
      [Energy |-> Rel(1, 25)],
      [LinearMomentum |-> Rel(1, 2)],
      [Energy |-> Rel(1, 25), LinearMomentum |-> Rel(1, 20), AngularMomentum |-> Rel(1, 20)],
      [Energy |-> Rel(2, 1)] }

Entry(key, card) == [key |-> key, card |-> card]

CardMaps(G, budgets) ==
    { <<Entry(GravityId, GravityCard(G, budgets))>>,
      <<Entry(GravityId, GravityCard(G, budgets)), Entry(LinearDragId, DragCard(1))>>,
      <<Entry(GravityId, GravityCard(G, budgets)), Entry("drag", DragCard(1))>> }

\* The default dt of a minute is used on the scenes whose bodies start slow,
\* which keeps every quantity of the run within the integers TLC computes on.
Slow(sc) == \A k \in DOMAIN sc.bodies : Abs(sc.bodies[k].velocity) <= 1

InitSim ==
    /\ \E sc \in Scenes, dyn \in DynamicsChoices, cfg \in Configs, b \in BudgetChoices :
          /\ "dtSeconds" \notin DOMAIN cfg => Slow(sc)
          /\ world = [entities |-> sc.bodies, dynamics |-> dyn, config |-> cfg]
          /\ cards \in CardMaps(sc.G, b)
    /\ world0 = world
    /\ cards0 = cards
    /\ pc = "start"
    /\ loop_i = << >>
    /\ state = NoState
    /\ inv0 = NoInvariants
    /\ audits = {}
    /\ result = NoResult
    /\ ResolveIdle
    /\ DriftIdle
    /\ CallIdle
    /\ MainIdle

\* The law card of a run that got past the lookups.
Law == card_by_ref(cards, law_ref(world))[1]

\* simulate up to the loop: the law and solver lookups, the arrays, inv0.
SimStart ==
    /\ pc = "start"
    /\ IF world.dynamics = << >>
       THEN /\ pc' = "IndexError"
            /\ UNCHANGED <<state, inv0>>
       ELSE IF card_by_ref(cards, law_ref(world)) = << >>
       THEN /\ pc' = "AttributeError"
            /\ UNCHANGED <<state, inv0>>
       ELSE IF Law.id # GravityId
       THEN /\ pc' = "KeyError"
            /\ UNCHANGED <<state, inv0>>
       ELSE LET a == world_to_arrays(world) IN
            IF Coincident(a.r)
            THEN /\ pc' = "nan"
                 /\ UNCHANGED <<state, inv0>>
            ELSE /\ state' = [t |-> 0, r |-> a.r, v |-> a.v, m |-> a.m]
                 /\ inv0' = audit_invariants(card_G(Law), a.m, a.r, a.v)
                 /\ pc' = IF config_steps(world) > 0 THEN "loop" ELSE "exit"
    /\ UNCHANGED <<world, cards, loop_i, audits, result, world0, cards0>>
    /\ UNCHANGED <<rvars, dvars, cvars>>
    /\ UNCHANGED mvars

\* One iteration of the loop: the composed step, then the audit when it is
\* due, then the break or the end of the range.
SimStep ==
    /\ pc = "loop"
    /\ LET i == IF loop_i = << >> THEN 0 ELSE loop_i[1] + 1
           steps == config_steps(world)
           dt == config_dt(world)
       IN /\ loop_i' = <<i>>
          /\ IF Coincident(half_step(state, Law, world, cards, dt).r_new)
             THEN /\ pc' = "nan"
                  /\ UNCHANGED <<state, audits>>
             ELSE LET st == composed_step(state, Law, world, cards, dt) IN
                  /\ state' = st
                  /\ IF audit_due(i, steps)
                     THEN /\ audits' = audits \cup {i + 1}
                          /\ pc' = IF gross_violation(
                                        audit_invariants(card_G(Law), st.m, st.r, st.v),
                                        inv0, Law)
                                   THEN "exit"
                                   ELSE IF i + 1 = steps THEN "exit" ELSE "loop"
                     ELSE /\ UNCHANGED audits
                          /\ pc' = "loop"
    /\ UNCHANGED <<world, cards, inv0, result, world0, cards0>>
    /\ UNCHANGED <<rvars, dvars, cvars>>
    /\ UNCHANGED mvars

\* After the loop: invN, the write-back, the RunResult.
SimReturn ==
    /\ pc = "exit"
    /\ world' = arrays_to_world(world, state.r, state.v)
    /\ IF loop_i = << >>
       THEN /\ pc' = "UnboundLocalError"
            /\ UNCHANGED result
       ELSE LET invN == audit_invariants(card_G(Law), state.m, state.r, state.v) IN
            /\ result' = [steps |-> run_steps(loop_i[1]),
                          dt_seconds |-> config_dt(world),
                          final_state |-> state,
                          initial_invariants |-> inv0,
                          final_invariants |-> invN,
                          drifts |-> [n \in InvariantNames |-> rel_drift(invN[n], inv0[n])]]
            /\ pc' = "returned"
    /\ UNCHANGED <<cards, loop_i, state, inv0, audits, world0, cards0>>
    /\ UNCHANGED <<rvars, dvars, cvars>>
    /\ UNCHANGED mvars

NextSim ==
    \/ SimStart
    \/ SimStep
    \/ SimReturn

SpecSim == InitSim /\ [][NextSim]_vars

(***************************************************************************)
(* The run as a function of the world and the cards handed in.             *)
(***************************************************************************)
\* The number of loop iterations completed so far.
Executed == IF loop_i = << >> THEN 0 ELSE loop_i[1] + 1

\* simulate is in or past its loop and every quantity is finite.
InRun == pc \in {"loop", "exit", "returned"}

ConfigSteps == config_steps(world0)
Law0 == card_by_ref(cards0, law_ref(world0))[1]

\* The states after 0, 1, ..., k steps from the world handed in, as a
\* sequence whose entry j + 1 is the state after exactly j steps.
RECURSIVE Trajectory(_)
Trajectory(k) ==
    IF k = 0
    THEN LET a == world_to_arrays(world0) IN
         <<[t |-> 0, r |-> a.r, v |-> a.v, m |-> a.m]>>
    ELSE CHOOSE next \in
            {Append(tr, composed_step(tr[k], Law0, world0, cards0, config_dt(world0))) :
                 tr \in {Trajectory(k - 1)}} : TRUE

\* The state after exactly k steps from the world handed in.
StateAfter(k) == Trajectory(k)[k + 1]

InvariantsOf(st) == audit_invariants(card_G(Law0), st.m, st.r, st.v)

\* The relative drift of invariant n in state st against its step-zero value.
DriftOf(st, n) == rel_drift(InvariantsOf(st)[n], InvariantsOf(StateAfter(0))[n])

BudgetEnabled(n) == FracLt(budget(Law0, n), One)
Times(c, q) == <<c * q[1], q[2]>>

\* Some enabled budget is exceeded more than ten times in state st.
GrossDrift(st) ==
    \E n \in InvariantNames :
        BudgetEnabled(n) /\ FracGt(DriftOf(st, n), Times(GrossFactor, budget(Law0, n)))

\* Some enabled budget is exceeded in state st.
OverBudget(st) ==
    \E n \in InvariantNames :
        BudgetEnabled(n) /\ FracGt(DriftOf(st, n), budget(Law0, n))

\* Step k is one after which the loop audits.
IsAuditStep(k) == k % AuditStride = 0 \/ k = ConfigSteps

C3_WitnessContinues ==
    /\ pc = "loop"
    /\ Executed = AuditStride
    /\ AuditStride \in audits
    /\ OverBudget(state)
    /\ ~GrossDrift(state)
    /\ GrossDrift(StateAfter(1))
    /\ 1 \notin audits

\* A run that goes on after an audit at which an invariant without a budget
\* below 1.0 has drifted more than ten times the budget declared for it.
C3_WitnessDisabledBudget ==
    /\ pc = "loop"
    /\ Executed = AuditStride
    /\ \E n \in InvariantNames :
          /\ ~BudgetEnabled(n)
          /\ FracGt(DriftOf(state, n), Times(GrossFactor, budget(Law0, n)))

\* A run stopped by the audit after step 200 and not by the one after 100.
C3_WitnessSecondAudit ==
    /\ pc = "exit"
    /\ ConfigSteps = MaxSteps
    /\ Executed = 2 * AuditStride

\* C5: when simulate returns, body i of the world holds row i of the final
\* state's r and v; the bodies keep their ids, order and masses, and the mass
\* array, the dynamics, the config and the card map are as they were handed
\* in, at every point of the run.
C5_WriteBackAndFrame ==
    /\ Len(world.entities) = Len(world0.entities)
    /\ \A k \in DOMAIN world0.entities :
          /\ world.entities[k].id = world0.entities[k].id
          /\ world.entities[k].mass = world0.entities[k].mass
    /\ world.dynamics = world0.dynamics
    /\ world.config = world0.config
    /\ cards = cards0
    /\ InRun => state.m = world_to_arrays(world0).m
    /\ pc = "returned" =>
          /\ result.final_state.m = world_to_arrays(world0).m
          /\ \A k \in DOMAIN world.entities :
                /\ world.entities[k].position = result.final_state.r[k]
                /\ world.entities[k].velocity = result.final_state.v[k]

\* A returned run whose bodies moved apart from each other's values: the
\* written rows differ from the initial ones and from one another.
C5_Witness ==
    /\ pc = "returned"
    /\ world.entities # world0.entities
    /\ world.entities[1].position # world.entities[2].position
    /\ world.entities[1].velocity # world.entities[2].velocity

\* The write-back after an early abort.
C5_WitnessAbort ==
    /\ pc = "returned"
    /\ result.steps < ConfigSteps
    /\ world.entities # world0.entities

\* C10: RunResult.steps is the number of steps executed: config.steps when no
\* audit before it found a gross drift, otherwise the first audit step that
\* did; it lies in 1..config.steps and is a multiple of 100 when smaller than
\* config.steps; the final state, the final invariants and the drift map are
\* those of the state after exactly that many steps.
C10_StepsExecuted ==
    pc = "returned" =>
        \A tr \in {Trajectory(result.steps)} :
            LET k == result.steps
                after(j) == tr[j + 1]
            IN
            /\ 1 <= k /\ k <= ConfigSteps
            /\ k = Executed
            /\ k < ConfigSteps => (k % AuditStride = 0 /\ GrossDrift(after(k)))
            /\ \A j \in 1..(k - 1) : ~(IsAuditStep(j) /\ GrossDrift(after(j)))
            /\ result.final_state = after(k)
            /\ result.final_invariants = InvariantsOf(after(k))
            /\ result.initial_invariants = InvariantsOf(after(0))
            /\ \A n \in InvariantNames : result.drifts[n] = DriftOf(after(k), n)
            /\ result.dt_seconds = config_dt(world0)

\* A run returned after an early abort: fewer steps than configured.
C10_Witness ==
    /\ pc = "returned"
    /\ result.steps = AuditStride
    /\ ConfigSteps = MaxSteps

\* A run returned after all its steps, the last of them not a multiple of 100.
C10_WitnessFullRun ==
    /\ pc = "returned"
    /\ result.steps = ConfigSteps
    /\ ConfigSteps % AuditStride # 0
    /\ ConfigSteps > AuditStride

(***************************************************************************)
(* simulate.py: _mask_from_selector on its own.                            *)
(***************************************************************************)
\* Three bodies with distinct ids; SelectorIds adds an id no body carries.
MaskEntities == <<Body("b1", 2, 0, 1), Body("b2", 4, 12, 0), Body("b3", 2, 30, 0 - 1)>>
SelectorIds == {"b1", "b2", "b3", "zz"}

RECURSIVE SeqsUpTo(_, _)
SeqsUpTo(S, n) ==
    IF n = 0 THEN {<< >>}
    ELSE LET shorter == SeqsUpTo(S, n - 1) IN
         shorter \cup {Append(q, x) : q \in shorter, x \in S}

SelectorChoices ==
    {NoSelector} \cup
    {Selector(b, p) : b \in SeqsUpTo(SelectorIds, MaxSel),
                      p \in SeqsUpTo(SelectorIds \X SelectorIds, 1)}

InitMask ==
    /\ \E sel \in SelectorChoices :
          call = [fn |-> "_mask_from_selector", sel |-> sel, entities |-> MaskEntities]
    /\ ret = NoReturn
    /\ call_pc = "call"
    /\ ResolveIdle
    /\ DriftIdle
    /\ SimIdle
    /\ MainIdle

\* One call of _mask_from_selector on the drawn selector.
MaskCall ==
    /\ call_pc = "call"
    /\ call.fn = "_mask_from_selector"
    /\ ret' = [fn |-> call.fn, mask |-> mask_from_selector(call.sel, call.entities)]
    /\ call_pc' = "done"
    /\ UNCHANGED <<call, rvars, dvars, svars, mvars>>

NextMask == MaskCall

SpecMask == InitMask /\ [][NextMask]_vars

\* The ids a selector lists: its body ids and the endpoints of its pairs.
ListedIds(sel) ==
    {sel.bodies[k] : k \in DOMAIN sel.bodies}
        \cup {sel.pairs[k][1] : k \in DOMAIN sel.pairs}
        \cup {sel.pairs[k][2] : k \in DOMAIN sel.pairs}

\* The bodies of the world that carry a listed id.
NamedBodies(sel, ents) == {i \in DOMAIN ents : ents[i].id \in ListedIds(sel)}

\* C11: the bodies an external law is applied to are those carrying an id the
\* selector lists, as a body id or as an endpoint of a pair; when the selector
\* is absent or empty, or no body carries a listed id, they are all bodies.
C11_SelectorMask ==
    call_pc = "done" /\ call.fn = "_mask_from_selector" =>
        LET named == NamedBodies(call.sel, call.entities) IN
        ret.mask = IF ~call.sel.present \/ ListedIds(call.sel) = {} \/ named = {}
                   THEN DOMAIN call.entities
                   ELSE named

\* A selector with a body id, a pair with an endpoint listed nowhere else and
\* an id no body carries: two of the three bodies are masked.
C11_Witness ==
    /\ call_pc = "done"
    /\ call.fn = "_mask_from_selector"
    /\ call.sel.present
    /\ call.sel.bodies = <<"b1">>
    /\ call.sel.pairs = <<<<"zz", "b3">>>>
    /\ ret.mask = {1, 3}

\* A selector that lists only ids no body carries selects every body.
C11_WitnessUnresolved ==
    /\ call_pc = "done"
    /\ call.fn = "_mask_from_selector"
    /\ call.sel.present
    /\ ListedIds(call.sel) = {"zz"}
    /\ ret.mask = DOMAIN call.entities

(***************************************************************************)
(* simulate.py: _external_accels and _param on their own.                  *)
(***************************************************************************)
UnknownRef == "rg:law/unknown.v1"
FutureLawId == "rg:law/em.lorentz.v1"

\* The quadratic drag card: parameter Cq.
QuadraticDragCard(Cq) ==
    [id |-> QuadraticDragId,
     parameters |-> [Cq |-> Cq],
     invariants |-> [driftBudget |-> << >>]]

\* A card of a law _external_accels has no branch for.
FutureCard ==
    [id |-> FutureLawId,
     parameters |-> [gamma |-> 1, Cq |-> 1],
     invariants |-> [driftBudget |-> << >>]]

\* The card map of the calls: gravity, both drag laws and the future law.
ExtCards ==
    <<Entry(GravityId, GravityCard(1, << >>)),
      Entry(LinearDragId, DragCard(2)),
      Entry(QuadraticDragId, QuadraticDragCard(1)),
      Entry(FutureLawId, FutureCard)>>

ExtEntities == <<Body("b1", 2, 0, 4), Body("b2", 4, 12, 0 - 8)>>

ExtRefs == {GravityId, LinearDragId, QuadraticDragId, FutureLawId, UnknownRef}
ExtOverrides == {NoOverride, [gamma |-> 0], [gamma |-> 3], [Cq |-> 0]}
ExtSelectors == {NoSelector, Selector(<<"b1">>, << >>)}

ExtDynamics ==
    {Dynamic(ref, sel, ov) : ref \in ExtRefs, sel \in ExtSelectors, ov \in ExtOverrides}

ExtVelocities == {<<4, 0 - 8>>, <<0 - 2, 4>>}

InitExt ==
    /\ \E dyn \in SeqsUpTo(ExtDynamics, MaxDyn), v_now \in ExtVelocities :
          call = [fn |-> "_external_accels",
                  world |-> [entities |-> ExtEntities, dynamics |-> dyn],
                  cards |-> ExtCards,
                  v_now |-> v_now]
    /\ ret = NoReturn
    /\ call_pc = "call"
    /\ ResolveIdle
    /\ DriftIdle
    /\ SimIdle
    /\ MainIdle

\* One call of _external_accels; the card map is handed back as the call
\* leaves it.
ExtCall ==
    /\ call_pc = "call"
    /\ call.fn = "_external_accels"
    /\ ret' = [fn |-> call.fn,
               aext |-> external_accels(call.world, call.cards,
                                        card_by_ref(call.cards, GravityId)[1],
                                        world_to_arrays(call.world).m, call.v_now),
               cards |-> call.cards]
    /\ call_pc' = "done"
    /\ UNCHANGED <<call, rvars, dvars, svars, mvars>>

NextExt == ExtCall

SpecExt == InitExt /\ [][NextExt]_vars

ExtDone == call_pc = "done" /\ call.fn = "_external_accels"

\* The card the map holds for a ref, found by id.
CardById(cs, id) == {cs[k].card : k \in {j \in DOMAIN cs : cs[j].card.id = id}}

\* The coefficient a dynamic bound to a card uses.
Coefficient(d, card, name) ==
    IF name \in DOMAIN d.override THEN d.override[name] ELSE card.parameters[name]

\* Whether body i is one the dynamic's selector selects.
Selected(d, ents, i) ==
    \/ ~d.selector.present
    \/ ents[i].id \in ListedIds(d.selector)
    \/ NamedBodies(d.selector, ents) = {}

\* The acceleration dynamic d gives body i, from d's own coefficient alone.
DragOf(d, cs, ents, v, i) ==
    IF ~Selected(d, ents, i) THEN 0
    ELSE IF d.ref = LinearDragId
    THEN 0 - Quot(Coefficient(d, CHOOSE c \in CardById(cs, d.ref) : TRUE, "gamma") * v[i],
                  ents[i].mass)
    ELSE IF d.ref = QuadraticDragId
    THEN 0 - Quot(Coefficient(d, CHOOSE c \in CardById(cs, d.ref) : TRUE, "Cq")
                      * Abs(v[i]) * v[i],
                  ents[i].mass)
    ELSE 0

\* C12: the external acceleration of every body is the sum, over the
\* dynamics, of the drag computed with that dynamic's own coefficient: its
\* override when the override map holds the name (an override of 0 included),
\* else the card's parameter value; dynamics whose ref is not in the card map
\* or whose card is no drag law add zero; the card map is left as it was.
C12_ParamOverride ==
    ExtDone =>
        /\ \A i \in DOMAIN call.v_now :
              ret.aext[i] =
                  Sum([k \in DOMAIN call.world.dynamics |->
                          DragOf(call.world.dynamics[k], call.cards,
                                 call.world.entities, call.v_now, i)])
        /\ ret.cards = call.cards
        /\ ret.cards = ExtCards

\* Two dynamics bound to the linear drag card, the first with gamma
\* overridden to 0, the second without override: the sum is the second's
\* drag with the card's gamma 2.
C12_Witness ==
    /\ ExtDone
    /\ call.world.dynamics = <<Dynamic(LinearDragId, NoSelector, [gamma |-> 0]),
                               Dynamic(LinearDragId, NoSelector, NoOverride)>>
    /\ call.v_now = <<4, 0 - 8>>
    /\ ret.aext = <<0 - 4, 4>>

\* A ref that is not in the card map, next to an overridden drag.
C12_WitnessUnknownRef ==
    /\ ExtDone
    /\ call.world.dynamics = <<Dynamic(UnknownRef, NoSelector, [gamma |-> 3]),
                               Dynamic(LinearDragId, NoSelector, [gamma |-> 3])>>
    /\ call.v_now = <<4, 0 - 8>>
    /\ ret.aext = <<0 - 6, 6>>

\* A card of no known drag law alone adds nothing.
C12_WitnessFutureLaw ==
    /\ ExtDone
    /\ call.world.dynamics = <<Dynamic(FutureLawId, NoSelector, [gamma |-> 3])>>
    /\ ret.aext = <<0, 0>>

(***************************************************************************)
(* validate.py: validate(world, cards).                                    *)
(***************************************************************************)
REQ_WORLD_KEYS == <<"frames", "entities", "dynamics">>
REQ_UNITS == {"length", "time", "mass"}

ValidationIssue(path, message) == [path |-> path, message |-> message]
ValidationReport(ok, issues) == [ok |-> ok, issues |-> issues]

\* A body together with the unit strings of its mass, position and velocity.
UnitBody(b, mass_unit, position_unit, velocity_unit) ==
    [id |-> b.id, mass |-> b.mass, position |-> b.position, velocity |-> b.velocity,
     mass_unit |-> mass_unit, position_unit |-> position_unit,
     velocity_unit |-> velocity_unit]

Frame(units) == [units |-> units]

\* A card with its validity section.
WithValidity(card) ==
    [id |-> card.id, parameters |-> card.parameters, invariants |-> card.invariants,
     validity |-> [regime |-> "classical"]]

\* A card whose invariants section is None.
WithoutInvariants(card) ==
    [id |-> card.id, parameters |-> card.parameters,
     validity |-> [regime |-> "classical"]]

\* _has_units(frame_units)
has_units(frame_units) ==
    \A k \in REQ_UNITS : k \in DOMAIN frame_units /\ frame_units[k] # ""

RECURSIVE Flatten(_)
Flatten(ss) ==
    IF ss = << >> THEN << >> ELSE Head(ss) \o Flatten(Tail(ss))

\* The issues of the presence loop over REQ_WORLD_KEYS; the path names the
\* field the message is about.
presence_issues(w) ==
    Flatten([k \in DOMAIN REQ_WORLD_KEYS |->
                IF w[REQ_WORLD_KEYS[k]] = << >>
                THEN <<ValidationIssue(<<"world.", REQ_WORLD_KEYS[k]>>,
                                       "Missing required field")>>
                ELSE << >>])

\* The issue of frame 0.
frame_issues(w) ==
    IF w.frames # << >> /\ ~has_units(w.frames[1].units)
    THEN <<ValidationIssue(<<"world.frames[0].units">>,
                           "Units must include length,time,mass")>>
    ELSE << >>

\* Mutant of the loop body over the entities: the velocity unit is not
\* looked at.
entity_issues_no_velocity(ent) ==
    (IF ent.mass_unit = ""
     THEN <<ValidationIssue(<<ent.id, ".mass.unit">>, "Mass unit required")>>
     ELSE << >>)
    \o (IF ent.position_unit = ""
        THEN <<ValidationIssue(<<ent.id, ".state.position.unit">>, "Position unit required")>>
        ELSE << >>)

\* The issues one body adds.
entity_issues(ent) ==
    (IF ent.mass_unit = ""
     THEN <<ValidationIssue(<<ent.id, ".mass.unit">>, "Mass unit required")>>
     ELSE << >>)
    \o (IF ent.position_unit = ""
        THEN <<ValidationIssue(<<ent.id, ".state.position.unit">>, "Position unit required")>>
        ELSE << >>)
    \o (IF ent.velocity_unit = ""
        THEN <<ValidationIssue(<<ent.id, ".state.velocity.unit">>, "Velocity unit required")>>
        ELSE << >>)

\* The issues one dynamic's ref adds.
card_issues(law_id, cs) ==
    LET lc == card_by_ref(cs, law_id) IN
    IF lc = << >>
    THEN <<ValidationIssue(<<"dynamics:", law_id>>, "LawCard not resolved")>>
    ELSE (IF "validity" \notin DOMAIN lc[1]
          THEN <<ValidationIssue(<<lc[1].id, ".validity">>, "LawCard.validity required")>>
          ELSE << >>)
         \o (IF "invariants" \notin DOMAIN lc[1]
             THEN <<ValidationIssue(<<lc[1].id, ".invariants">>, "LawCard.invariants required")>>
             ELSE << >>)

\* validate(world, cards)
validate(w, cs) ==
    LET issues ==
            presence_issues(w)
            \o frame_issues(w)
            \o Flatten([k \in DOMAIN w.entities |-> entity_issues(w.entities[k])])
            \o Flatten([k \in DOMAIN w.dynamics |-> card_issues(w.dynamics[k].ref, cs)])
    IN ValidationReport(Len(issues) = 0, issues)

GoodUnits == [length |-> "m", time |-> "s", mass |-> "kg"]

FrameChoices ==
    { << >>,
      <<Frame(GoodUnits)>>,
      <<Frame([length |-> "m", time |-> "s"])>>,
      <<Frame([length |-> "m", time |-> "s", mass |-> ""])>> }

UnitChoices == {"", "si"}

\* No body, or two bodies with every combination of given and empty units.
EntityChoices ==
    {<< >>} \cup
    {<<UnitBody(Body("b1", 2, 0, 1), u[1], u[2], u[3]),
       UnitBody(Body("b2", 4, 12, 0), u[4], u[5], u[6])>> :
        u \in [1..6 -> UnitChoices]}

ValidateRefs == {GravityId, LinearDragId, UnknownRef}

ValidateCardMaps ==
    { << >>,
      <<Entry(GravityId, WithValidity(GravityCard(1, << >>)))>>,
      <<Entry(GravityId, WithValidity(GravityCard(1, << >>))),
        Entry(LinearDragId, WithValidity(DragCard(1)))>>,
      <<Entry(GravityId, GravityCard(1, << >>)),
        Entry(LinearDragId, WithoutInvariants(DragCard(1)))>> }

InitValidate ==
    /\ \E fr \in FrameChoices, ents \in EntityChoices,
          refs \in SeqsUpTo(ValidateRefs, MaxDyn), cs \in ValidateCardMaps :
          call = [fn |-> "validate",
                  world |-> [frames |-> fr, entities |-> ents,
                             dynamics |-> [k \in DOMAIN refs |->
                                              Dynamic(refs[k], NoSelector, NoOverride)]],
                  cards |-> cs]
    /\ ret = NoReturn
    /\ call_pc = "call"
    /\ ResolveIdle
    /\ DriftIdle
    /\ SimIdle
    /\ MainIdle

\* One call of validate; the world and the cards are handed back as the call
\* leaves them.
ValidateCall ==
    /\ call_pc = "call"
    /\ call.fn = "validate"
    /\ ret' = [fn |-> call.fn,
               report |-> validate(call.world, call.cards),
               world |-> call.world,
               cards |-> call.cards]
    /\ call_pc' = "done"
    /\ UNCHANGED <<call, rvars, dvars, svars, mvars>>

NextValidate == ValidateCall

SpecValidate == InitValidate /\ [][NextValidate]_vars

ValidateDone == call_pc = "done" /\ call.fn = "validate"

\* How many issues of a report carry the path and the message.
IssueCount(report, path, message) ==
    Cardinality({k \in DOMAIN report.issues :
                    report.issues[k] = ValidationIssue(path, message)})

\* How many issues of a report carry the path.
PathCount(report, path) ==
    Cardinality({k \in DOMAIN report.issues : report.issues[k].path = path})

UnitFields ==
    { [unit |-> "mass_unit", path |-> ".mass.unit", message |-> "Mass unit required"],
      [unit |-> "position_unit", path |-> ".state.position.unit",
       message |-> "Position unit required"],
      [unit |-> "velocity_unit", path |-> ".state.velocity.unit",
       message |-> "Velocity unit required"] }

\* C13: validate returns a report whose ok is true exactly when its issue
\* list is empty; for every body and each of its mass, position and velocity
\* units that is the empty string the report is not ok and holds exactly one
\* issue with the unit's path and message (and none with that path when the
\* unit is given); the world and the cards are as they were handed in.
C13_ValidateUnits ==
    ValidateDone =>
        /\ ret.report.ok = (ret.report.issues = << >>)
        /\ \A k \in DOMAIN call.world.entities, f \in UnitFields :
              LET ent == call.world.entities[k] IN
              IF ent[f.unit] = ""
              THEN /\ ~ret.report.ok
                   /\ IssueCount(ret.report, <<ent.id, f.path>>, f.message) = 1
                   /\ PathCount(ret.report, <<ent.id, f.path>>) = 1
              ELSE PathCount(ret.report, <<ent.id, f.path>>) = 0
        /\ ret.world = call.world
        /\ ret.cards = call.cards

\* The case of the unit test: every ref resolved, the frame complete, and
\* only the velocity unit of the second body empty; the report holds that one
\* issue.
C13_Witness ==
    /\ ValidateDone
    /\ call.world.frames = <<Frame(GoodUnits)>>
    /\ call.world.dynamics = <<Dynamic(GravityId, NoSelector, NoOverride)>>
    /\ Len(call.world.entities) = 2
    /\ call.world.entities[2].velocity_unit = ""
    /\ ~ret.report.ok
    /\ ret.report.issues =
          <<ValidationIssue(<<"b2", ".state.velocity.unit">>, "Velocity unit required")>>

\* A world with nothing to report.
C13_WitnessOk ==
    /\ ValidateDone
    /\ call.world.entities # << >>
    /\ call.world.dynamics # << >>
    /\ ret.report.ok
    /\ ret.report.issues = << >>

\* Every unit of both bodies empty: six unit issues.
C13_WitnessAllEmpty ==
    /\ ValidateDone
    /\ call.world.frames = <<Frame(GoodUnits)>>
    /\ call.world.dynamics = <<Dynamic(GravityId, NoSelector, NoOverride)>>
    /\ call.cards # << >>
    /\ Len(ret.report.issues) = 6

(***************************************************************************)
(* cli.py main and examples/run_gravity_drag.py main: resolve, validate,   *)
(* simulate, write the lockfile.                                           *)
(***************************************************************************)
\* A dynamic's ref that is the path of the last card file.
CardPath == "cards/law.json"

\* The ref string as resolve_cards sees it: a path that exists, or an id.
RefOf(s) == IF s = CardPath THEN PathRef(MaxFiles) ELSE IriRef(s)

\* The card files of a run: not JSON, or a complete card with its own digest.
MainFiles ==
    {f \in FileDescs :
        f = BadJsonFile \/ (f.data.complete /\ f.data.sha256 = canonical_sha256(f.data))}

\* The LawCard object of a loaded file with the sections validate and
\* simulate read: the parameters and invariants of the law the card declares.
card_object(c) ==
    [id |-> c.id, title |-> c.title, sha256 |-> c.sha256,
     parameters |-> IF c.id = GravityId THEN [G |-> 40] ELSE [gamma |-> 1],
     invariants |-> [driftBudget |-> << >>],
     validity |-> [regime |-> "classical"]]

\* The dict resolve_cards returns, as the sequence of its (key, card) entries.
card_map(map) ==
    LET keys == SelectSeq(<<GravityId, LinearDragId>>, LAMBDA k : k \in DOMAIN map)
    IN [j \in DOMAIN keys |-> Entry(keys[j], card_object(map[keys[j]]))]

\* write_lockfile(run, cards, path): the payload written.
write_lockfile(run, cs) ==
    [written |-> TRUE,
     dtSeconds |-> run.dt_seconds,
     steps |-> run.steps,
     cards |-> {[id |-> cs[k].card.id, sha256 |-> cs[k].card.sha256,
                 title |-> cs[k].card.title] : k \in DOMAIN cs},
     drifts |-> run.drifts]

\* [w.dynamics[0]["ref"]]
cli_refs(w) == <<w.dynamics[1].ref>>

\* [getattr(d, "ref", d.get("ref")) for d in world.dynamics]
example_refs(w) == [k \in DOMAIN w.dynamics |-> w.dynamics[k].ref]

MainEntities ==
    { <<UnitBody(Body("b1", 2, 0, 1), "kg", "m", "m/s"),
        UnitBody(Body("b2", 4, 12, 0), "kg", "m", "m/s")>>,
      <<UnitBody(Body("b1", 2, 0, 1), "kg", "m", "m/s"),
        UnitBody(Body("b2", 4, 12, 0), "kg", "m", "")>> }

MainDynamics ==
    { << >>,
      <<Dynamic(GravityId, NoSelector, NoOverride)>>,
      <<Dynamic(GravityId, NoSelector, NoOverride),
        Dynamic(LinearDragId, NoSelector, NoOverride)>>,
      <<Dynamic(CardPath, NoSelector, NoOverride)>>,
      <<Dynamic(GravityId, NoSelector, NoOverride),
        Dynamic(CardPath, NoSelector, NoOverride)>>,
      <<Dynamic(LinearDragId, NoSelector, NoOverride)>> }

MainConfigs == {[dtSeconds |-> 2, steps |-> n] : n \in {0, 1, 2}}

InitMain ==
    /\ main_kind \in {"cli", "example"}
    /\ main_pc = "resolve"
    /\ rep = NoReport
    /\ lock = NoLock
    /\ exit_code = NoExit
    /\ fs \in [Paths -> MainFiles]
    /\ scan_files = [i \in Paths |-> i]
    /\ \/ index_by_id = << >>
       \/ index_by_id = [k \in {GravityId} |-> MaxFiles]
    /\ law_refs = << >>
    /\ out = EmptyMap
    /\ rstatus = "idle"
    /\ returned = NoMap
    /\ \E ents \in MainEntities, dyn \in MainDynamics, cfg \in MainConfigs :
          world = [frames |-> <<Frame(GoodUnits)>>, entities |-> ents,
                   dynamics |-> dyn, config |-> cfg]
    /\ world0 = world
    /\ cards = << >>
    /\ cards0 = << >>
    /\ pc = "idle"
    /\ loop_i = << >>
    /\ state = NoState
    /\ inv0 = NoInvariants
    /\ audits = {}
    /\ result = NoResult
    /\ DriftIdle
    /\ CallIdle

\* cards = resolve_cards(refs); an exception ends the program with a
\* traceback and exit status 1.
MainResolve ==
    /\ main_pc = "resolve"
    /\ IF main_kind = "cli" /\ world.dynamics = << >>
       THEN /\ exit_code' = 1
            /\ main_pc' = "exited"
            /\ rstatus' = "IndexError"
            /\ UNCHANGED <<law_refs, out, returned, cards, cards0>>
       ELSE LET refs == IF main_kind = "cli" THEN cli_refs(world) ELSE example_refs(world)
                rr == [k \in DOMAIN refs |-> RefOf(refs[k])]
                r == resolve_cards(rr, EmptyMap)
            IN /\ law_refs' = rr
               /\ IF r.err # NoError
                  THEN /\ rstatus' = r.err
                       /\ exit_code' = 1
                       /\ main_pc' = "exited"
                       /\ UNCHANGED <<out, returned, cards, cards0>>
                  ELSE /\ rstatus' = "returned"
                       /\ out' = r.out
                       /\ returned' = [status |-> "map", cards |-> r.out]
                       /\ cards' = card_map(r.out)
                       /\ cards0' = card_map(r.out)
                       /\ main_pc' = "validate"
                       /\ UNCHANGED exit_code
    /\ UNCHANGED <<main_kind, rep, lock>>
    /\ UNCHANGED <<fs, scan_files, index_by_id>>
    /\ UNCHANGED <<world, pc, loop_i, state, inv0, audits, result, world0>>
    /\ UNCHANGED <<dvars, cvars>>

\* rep = validate(world, cards); SystemExit(2) in cli.py and SystemExit(1) in
\* the example when the report is not ok, otherwise simulate is entered.
MainValidate ==
    /\ main_pc = "validate"
    /\ rep' = validate(world, cards)
    /\ IF ~validate(world, cards).ok
       THEN /\ exit_code' = IF main_kind = "cli" THEN 2 ELSE 1
            /\ main_pc' = "exited"
            /\ UNCHANGED pc
       ELSE /\ main_pc' = "simulate"
            /\ pc' = "start"
            /\ UNCHANGED exit_code
    /\ UNCHANGED <<main_kind, lock>>
    /\ UNCHANGED <<world, cards, loop_i, state, inv0, audits, result, world0, cards0>>
    /\ UNCHANGED <<rvars, dvars, cvars>>

\* simulate returned: write_lockfile(run, cards, path) and the normal exit.
MainWriteLock ==
    /\ main_pc = "simulate"
    /\ pc = "returned"
    /\ lock' = write_lockfile(result, cards)
    /\ exit_code' = 0
    /\ main_pc' = "exited"
    /\ UNCHANGED <<main_kind, rep>>
    /\ UNCHANGED <<rvars, dvars, svars, cvars>>

\* simulate raised: the program ends with a traceback and exit status 1.
MainCrash ==
    /\ main_pc = "simulate"
    /\ pc \in {"IndexError", "AttributeError", "KeyError", "UnboundLocalError"}
    /\ exit_code' = 1
    /\ main_pc' = "exited"
    /\ UNCHANGED <<main_kind, rep, lock>>
    /\ UNCHANGED <<rvars, dvars, svars, cvars>>

NextMain ==
    \/ MainResolve
    \/ MainValidate
    \/ SimStart
    \/ SimStep
    \/ SimReturn
    \/ MainWriteLock
    \/ MainCrash

SpecMain == InitMain /\ [][NextMain]_vars

\* validate has run on the cards resolve_cards returned.
Validated == main_pc \in {"simulate", "exited"} /\ rstatus = "returned"

\* The report holds the "LawCard not resolved" issue of a ref.
NotResolvedIssue(ref) ==
    \E k \in DOMAIN rep.issues :
        rep.issues[k] = ValidationIssue(<<"dynamics:", ref>>, "LawCard not resolved")

\* C14: when resolve_cards resolved the ref of every dynamic (an id or a file
\* path), validate reports no "LawCard not resolved" issue for any dynamic,
\* and the lookup simulate makes for the dynamic's ref yields the card the
\* ref resolved to, which is also the card found under its own id.
C14_LookupByIdOrRef ==
    (main_kind = "example" /\ Validated) =>
        \A k \in DOMAIN world.dynamics :
            LET ref == world.dynamics[k].ref
                resolved == resolve_one(RefOf(ref)).card
            IN /\ ~NotResolvedIssue(ref)
               /\ card_by_ref(cards, ref) = <<card_object(resolved)>>
               /\ card_by_ref(cards, ref) = card_by_ref(cards, resolved.id)

(***************************************************************************)
(* solvers/verlet.py: the kernel VerletNBodySolver.step runs.              *)
(***************************************************************************)
BytesPerPair == 48
DefaultThreshold == 64
DefaultMaxBytes == 256000000

\* VerletNBodySolver(softening, vectorized, vectorize_threshold,
\* max_vectorized_bytes): the fields _should_vectorize reads.
VerletNBodySolver(vectorized, vectorize_threshold, max_vectorized_bytes) ==
    [vectorized |-> vectorized,
     vectorize_threshold |-> vectorize_threshold,
     max_vectorized_bytes |-> max_vectorized_bytes]

\* Mutant of _should_vectorize: an estimate equal to the cap is let through.
should_vectorize_at_cap(self, n) ==
    IF ~self.vectorized \/ n < self.vectorize_threshold
    THEN FALSE
    ELSE LET estimated == BytesPerPair * (n * n) IN
         estimated <= self.max_vectorized_bytes

\* _should_vectorize(self, n)
should_vectorize(self, n) ==
    IF ~self.vectorized \/ n < self.vectorize_threshold
    THEN FALSE
    ELSE LET estimated == BytesPerPair * (n * n) IN
         estimated < self.max_vectorized_bytes

\* The kernel _take_step calls for both of its acceleration evaluations.
take_step_kernel(vectorized) ==
    IF vectorized THEN "_accels_vectorized" ELSE "_accels_loop"

\* Thresholds around the body counts, and the default.
ThresholdChoices == {0, 1, MaxN \div 2, MaxN, MaxN + 1, DefaultThreshold}

\* Caps at, just below and just above the estimate of some body count, the
\* default cap and a cap of zero.
MaxBytesChoices ==
    {0, DefaultMaxBytes}
        \cup UNION {{BytesPerPair * (k * k) - 1, BytesPerPair * (k * k),
                     BytesPerPair * (k * k) + 1} : k \in {1, MaxN \div 2, MaxN}}

InitKernel ==
    /\ \E n \in 0..MaxN, vec \in BOOLEAN, th \in ThresholdChoices, cap \in MaxBytesChoices :
          call = [fn |-> "step", n |-> n, solver |-> VerletNBodySolver(vec, th, cap)]
    /\ ret = NoReturn
    /\ call_pc = "call"
    /\ ResolveIdle
    /\ DriftIdle
    /\ SimIdle
    /\ MainIdle

\* One call of step on a state of n bodies: the kernel it runs.
StepCall ==
    /\ call_pc = "call"
    /\ call.fn = "step"
    /\ ret' = [fn |-> call.fn,
               kernel |-> take_step_kernel(should_vectorize(call.solver, call.n))]
    /\ call_pc' = "done"
    /\ UNCHANGED <<call, rvars, dvars, svars, mvars>>

NextKernel == StepCall

SpecKernel == InitKernel /\ [][NextKernel]_vars

StepDone == call_pc = "done" /\ call.fn = "step"

\* The estimated working set of the dense kernel on n bodies.
EstimatedBytes(n) == 48 * n * n

\* C15: step runs the dense pairwise kernel exactly when vectorization is
\* enabled, N is at least the threshold and 48*N*N is strictly below the cap;
\* otherwise it runs the per-body kernel, so the dense kernel never runs with
\* an estimate that reaches or exceeds the cap.
C15_KernelSelection ==
    StepDone =>
        /\ ret.kernel \in {"_accels_vectorized", "_accels_loop"}
        /\ ret.kernel = "_accels_vectorized" <=>
              /\ call.solver.vectorized
              /\ call.n >= call.solver.vectorize_threshold
              /\ EstimatedBytes(call.n) < call.solver.max_vectorized_bytes
        /\ EstimatedBytes(call.n) >= call.solver.max_vectorized_bytes =>
              ret.kernel = "_accels_loop"

\* Vectorization enabled, N above the threshold and the estimate equal to the
\* cap: the per-body kernel runs.
C15_Witness ==
    /\ StepDone
    /\ call.solver.vectorized
    /\ call.n >= call.solver.vectorize_threshold
    /\ call.n > 0
    /\ EstimatedBytes(call.n) = call.solver.max_vectorized_bytes
    /\ ret.kernel = "_accels_loop"

\* The dense kernel runs one byte below the cap, with N equal to the threshold.
C15_WitnessDense ==
    /\ StepDone
    /\ call.n = call.solver.vectorize_threshold
    /\ call.n > 0
    /\ EstimatedBytes(call.n) + 1 = call.solver.max_vectorized_bytes
    /\ ret.kernel = "_accels_vectorized"

\* The per-body kernel runs below the threshold although the cap would allow
\* the dense one.
C15_WitnessBelowThreshold ==
    /\ StepDone
    /\ call.solver.vectorized
    /\ call.n < call.solver.vectorize_threshold
    /\ EstimatedBytes(call.n) < call.solver.max_vectorized_bytes
    /\ ret.kernel = "_accels_loop"

(***************************************************************************)
(* simulate.py: one iteration of the loop on its own, with the evaluations *)
(* it makes in the order it makes them.                                    *)
(***************************************************************************)
\* The dynamics _external_accels adds a term for, in the order its loop
\* visits them: those that are not the law itself and whose card is found.
external_order(w, cs, law) ==
    SelectSeq([k \in DOMAIN w.dynamics |-> k],
              LAMBDA k : /\ w.dynamics[k].ref # law.id
                         /\ card_by_ref(cs, w.dynamics[k].ref) # << >>)

\* The acceleration evaluations of one loop iteration, in program order.
step_evaluations(st, law, w, cs, dt) ==
    LET h == half_step(st, law, w, cs, dt) IN
    <<[fn |-> "accelerations", r |-> st.r],
      [fn |-> "_external_accels", v |-> st.v, dynamics |-> external_order(w, cs, law)],
      [fn |-> "accelerations", r |-> h.r_new],
      [fn |-> "_external_accels", v |-> h.v_half, dynamics |-> external_order(w, cs, law)]>>

StepDynamics ==
    { <<Dynamic(GravityId, NoSelector, NoOverride)>>,
      <<Dynamic(GravityId, NoSelector, NoOverride),
        Dynamic(LinearDragId, NoSelector, NoOverride)>>,
      <<Dynamic(LinearDragId, Selector(<<"b1">>, << >>), NoOverride),
        Dynamic(GravityId, NoSelector, NoOverride)>>,
      <<Dynamic(LinearDragId, NoSelector, [gamma |-> 3]),
        Dynamic(GravityId, NoSelector, NoOverride),
        Dynamic(UnknownRef, NoSelector, NoOverride),
        Dynamic(LinearDragId, Selector(<<"b2">>, << >>), NoOverride)>> }

StepDts == {2, 4}

InitStep ==
    /\ \E sc \in Scenes, dyn \in StepDynamics, dt \in StepDts :
       \E cs \in CardMaps(sc.G, << >>) :
          LET w == [entities |-> sc.bodies, dynamics |-> dyn, config |-> [dtSeconds |-> dt]]
              a == world_to_arrays(w)
              st == [t |-> 0, r |-> a.r, v |-> a.v, m |-> a.m]
          IN /\ ~Coincident(half_step(st, card_by_ref(cs, GravityId)[1], w, cs, dt).r_new)
             /\ call = [fn |-> "loop body", world |-> w, cards |-> cs, state |-> st]
    /\ ret = NoReturn
    /\ call_pc = "call"
    /\ ResolveIdle
    /\ DriftIdle
    /\ SimIdle
    /\ MainIdle

\* One iteration of the loop of simulate on the drawn state.
LoopBody ==
    /\ call_pc = "call"
    /\ call.fn = "loop body"
    /\ LET law == card_by_ref(call.cards, law_ref(call.world))[1]
           dt == config_dt(call.world)
       IN ret' = [fn |-> call.fn,
                  state |-> composed_step(call.state, law, call.world, call.cards, dt),
                  evaluations |-> step_evaluations(call.state, law, call.world,
                                                   call.cards, dt)]
    /\ call_pc' = "done"
    /\ UNCHANGED <<call, rvars, dvars, svars, mvars>>

NextStep == LoopBody

SpecStep == InitStep /\ [][NextStep]_vars

LoopBodyDone == call_pc = "done" /\ call.fn = "loop body"

\* Newtonian gravity on the axis at positions r: what the other bodies add
\* to body i.
GravityAt(r, i) ==
    LET G == CHOOSE g \in {cs.card.parameters.G :
                             cs \in {call.cards[k] : k \in {j \in DOMAIN call.cards :
                                         call.cards[j].card.id = GravityId}}} : TRUE
        m == [k \in DOMAIN r |-> call.world.entities[k].mass]
    IN Sum([j \in DOMAIN r |->
               IF j = i THEN 0
               ELSE Quot(Quot(G * m[j] * Sgn(r[j] - r[i]), Abs(r[j] - r[i])),
                         Abs(r[j] - r[i]))])

\* The dynamics that stand for an external law whose card the map holds.
ExternalDynamics ==
    {k \in DOMAIN call.world.dynamics :
        /\ call.world.dynamics[k].ref # GravityId
        /\ \E j \in DOMAIN call.cards :
              call.cards[j].key = call.world.dynamics[k].ref
                  \/ call.cards[j].card.id = call.world.dynamics[k].ref}

\* The linear drag of the external dynamics on body i at velocities v.
ExternalAt(v, i) ==
    Sum([k \in DOMAIN call.world.dynamics |->
            IF k \in ExternalDynamics
            THEN DragOf(call.world.dynamics[k], call.cards, call.world.entities, v, i)
            ELSE 0])

HalfKick(v, a, dt) == v + Quot(dt * a, 2)

\* C16: one step takes gravity at the starting positions and the external
\* acceleration at the starting velocity for the opening half-kick, advances
\* the positions with the half-step velocity, and takes gravity at the new
\* positions and the external acceleration at the half-step velocity for the
\* closing half-kick; in each half-kick gravity is evaluated before the
\* external sum, which visits the dynamics in world order and leaves out the
\* gravity dynamic.
C16_StepOrderAndInputs ==
    LoopBodyDone =>
        LET dt == call.world.config.dtSeconds
            r == call.state.r
            v == call.state.v
            v_half == [i \in DOMAIN v |->
                          HalfKick(v[i], GravityAt(r, i) + ExternalAt(v, i), dt)]
            r_new == [i \in DOMAIN r |-> r[i] + dt * v_half[i]]
            v_new == [i \in DOMAIN v |->
                         HalfKick(v_half[i], GravityAt(r_new, i) + ExternalAt(v_half, i), dt)]
            ev == ret.evaluations
        IN /\ ret.state.r = r_new
           /\ ret.state.v = v_new
           /\ ret.state.m = call.state.m
           /\ ret.state.t = call.state.t + dt
           /\ Len(ev) = 4
           /\ ev[1].fn = "accelerations" /\ ev[1].r = r
           /\ ev[2].fn = "_external_accels" /\ ev[2].v = v
           /\ ev[3].fn = "accelerations" /\ ev[3].r = r_new
           /\ ev[4].fn = "_external_accels" /\ ev[4].v = v_half
           /\ \A e \in {ev[2], ev[4]} :
                 /\ {e.dynamics[k] : k \in DOMAIN e.dynamics} = ExternalDynamics
                 /\ \A j, k \in DOMAIN e.dynamics : j < k => e.dynamics[j] < e.dynamics[k]

\* A step under gravity and drag in which the starting, the half-step and
\* the new velocity of a body all differ, and taking the closing drag at the
\* starting velocity would give another result.
C16_Witness ==
    /\ LoopBodyDone
    /\ ExternalDynamics # {}
    /\ \E i \in DOMAIN call.state.v :
          LET dt == call.world.config.dtSeconds
              v == call.state.v
              v_half == (ret.state.r[i] - call.state.r[i]) \div dt
          IN /\ GravityAt(call.state.r, i) # 0
             /\ v_half # v[i]
             /\ ret.state.v[i] # v_half
             /\ ExternalAt(v, i) # ExternalAt([v EXCEPT ![i] = v_half], i)

\* A step whose external sum visits two drag dynamics around the gravity
\* dynamic and skips an unresolved one.
C16_WitnessOrder ==
    /\ LoopBodyDone
    /\ Len(call.world.dynamics) = 4
    /\ ret.evaluations[2].dynamics = <<1, 4>>
    /\ ret.evaluations[4].dynamics = <<1, 4>>

(***************************************************************************)
(* Properties of resolve_cards about the keys of the returned map.         *)
(***************************************************************************)
\* C17: when resolve_cards returns, every ref given as an id is a key of the
\* returned map and the card under it declares that id, whether the card was
\* found by the directory scan or through the index.
C17_ResolvedIriIsKey ==
    rstatus = "returned" =>
        \A k \in DOMAIN law_refs :
            ~exists(law_refs[k]) =>
                /\ law_refs[k].iri \in DOMAIN returned.cards
                /\ returned.cards[law_refs[k].iri].id = law_refs[k].iri

(***************************************************************************)
(* Properties of the command-line run.                                     *)
(***************************************************************************)
\* The world is structurally valid, its first dynamic is gravity, every
\* dynamic refers to its law by id, and every such id resolves to a card that
\* declares it; at least one step is configured.
Runnable ==
    /\ world0.dynamics # << >>
    /\ world0.dynamics[1].ref = GravityId
    /\ \A k \in DOMAIN world0.entities :
          /\ world0.entities[k].mass_unit # ""
          /\ world0.entities[k].position_unit # ""
          /\ world0.entities[k].velocity_unit # ""
    /\ \A k \in DOMAIN world0.dynamics :
          LET ref == world0.dynamics[k].ref IN
          /\ ref \in CardIds
          /\ resolve_one(IriRef(ref)).err = NoError
          /\ resolve_one(IriRef(ref)).card.id = ref
    /\ config_steps(world0) >= 1

\* C18: a command-line run on a structurally valid world whose every dynamic
\* is resolvable validates without a "LawCard not resolved" issue, simulates,
\* writes the lockfile and exits 0; it exits 2 only when validation reported
\* an issue, and then simulate was not entered and no lockfile was written.
C18_CliResolvesEveryDynamic ==
    (main_kind = "cli" /\ main_pc = "exited") =>
        /\ Runnable =>
              /\ \A k \in DOMAIN world0.dynamics : ~NotResolvedIssue(world0.dynamics[k].ref)
              /\ rep.ok
              /\ pc = "returned"
              /\ lock.written
              /\ exit_code = 0
        /\ exit_code = 2 =>
              /\ ~rep.ok
              /\ pc = "idle"
              /\ ~lock.written

====
